---- MODULE Spec2Model ----
(***************************************************************************)
(* loltracker: main.py reads a Riot ID, riot_api.calculate_stats resolves  *)
(* it to a PUUID, lists the recent match ids, fetches every match, folds   *)
(* the target player's participant entry into overall and per-champion     *)
(* accumulators and returns the summary, which main.py prints.             *)
(*                                                                         *)
(* Strings that the code inspects (the Riot ID) are sequences of           *)
(* characters.  A Python float is modelled by the exact rational it        *)
(* approximates, a record [num, den] in lowest terms.  A Python dict is a  *)
(* sequence of entries in insertion order (the order dict.items() yields). *)
(*                                                                         *)
(* A remote request either answers 200 with a well-formed body or answers  *)
(* one of ErrorResponses; transport errors and malformed bodies are not    *)
(* modelled.  A printed line is the tuple of values handed to the f-string;*)
(* the rendering of the format specs (:.2f, :.0f) is not modelled.         *)
(***************************************************************************)
EXTENDS Integers, Sequences, FiniteSets

\* ------------------------------------------------------------------ bounds
MaxMatches == 3
MaxParticipants == 2

\* ------------------------------------------------------- program constants
match_count == 20
TopN == 3

\* ------------------------------------------------------------ input domains
None == [none |-> TRUE]

RiotIds == { <<"T", "#", "1">>, <<"T", "1">> }

\* account ids that occur among participants, and the one the resolver answers with
Puuids == {"P1", "P2"}
AccountPuuids == {"P1"}
Champions == {"Jax", "Ahri"}
Statlines == { <<4, 1, 3>>, <<2, 0, 1>> }

Participant ==
  { [puuid |-> u, win |-> w, championName |-> c,
     kills |-> s[1], deaths |-> s[2], assists |-> s[3]] :
       u \in Puuids, w \in BOOLEAN, c \in Champions, s \in Statlines }

SeqUpTo(S, n) == UNION { [1..k -> S] : k \in 0..n }

MatchRecords == SeqUpTo(Participant, MaxParticipants)

\* Match ids are numbered chronologically; the lister answers with the n most
\* recent ones, most recent first, never more than the requested count.
Min(a, b) == IF a < b THEN a ELSE b
Max(a, b) == IF a > b THEN a ELSE b
MatchIdLists(count) ==
  { [i \in 1..n |-> n - i + 1] : n \in 0..Min(MaxMatches, count) }

ErrorResponses ==
  { [status_code |-> 403, text |-> "Forbidden"],
    [status_code |-> 404, text |-> "Data not found"] }

VARIABLES
  pc,             \* control position of main / calculate_stats
  riot_id,        \* main.py: riot_id
  puuid,          \* calculate_stats: puuid
  match_ids,      \* calculate_stats: match_ids
  total_matches,  \* calculate_stats: total_matches
  idx,            \* number of loop iterations of `for match_id in match_ids` begun
  match_data,     \* participants of the record fetched in the current iteration
  wins, total_kills, total_deaths, total_assists,
  champion_stats, \* dict champion -> accumulator, in insertion order
  result,         \* value returned by calculate_stats, or None
  exc,            \* exception in flight / caught by main, or None
  output,         \* lines printed by main
  trace,          \* history: remote requests, folds, return and print, in order
  misses,         \* history: fetched records without a target participant
  firstSeen,      \* history: champions of contributing participants, by first encounter
  lastTargets     \* history: target participants in the record fetched last

vars == << pc, riot_id, puuid, match_ids, total_matches, idx, match_data,
           wins, total_kills, total_deaths, total_assists, champion_stats,
           result, exc, output, trace, misses, firstSeen, lastTargets >>

accs == << wins, total_kills, total_deaths, total_assists, champion_stats >>

\* ---------------------------------------------------------- pure helpers

\* `"#" in riot_id`
HasSeparator(s) == \E i \in 1..Len(s) : s[i] = "#"

\* riot_id.split("#", 1) for a string that holds a separator
SplitRiotId(s) ==
  LET i == CHOOSE k \in 1..Len(s) :
             s[k] = "#" /\ \A j \in 1..(k - 1) : s[j] # "#"
  IN  << SubSeq(s, 1, i - 1), SubSeq(s, i + 1, Len(s)) >>

RECURSIVE GCD(_, _)
GCD(a, b) == IF b = 0 THEN a ELSE GCD(b, a % b)

\* Python's true division and float multiplication, on exact rationals.
ZeroDivisionError == [type |-> "ZeroDivisionError", msg |-> <<"division by zero">>]
Float(n, d) == LET g == GCD(n, d) IN [num |-> n \div g, den |-> d \div g]
TrueDiv(n, d) == IF d = 0 THEN ZeroDivisionError ELSE Float(n, d)
FMul(x, k) == IF x = ZeroDivisionError THEN x ELSE Float(x.num * k, x.den)
IsFault(x) == x = ZeroDivisionError

\* the inner loop `for participant in participants: if participant["puuid"] == puuid`
\* index of the participant at which the loop breaks, 0 when it runs to the end
RECURSIVE ScanParticipants(_, _, _)
ScanParticipants(participants, target, i) ==
  IF i > Len(participants) THEN 0
  ELSE IF participants[i].puuid = target THEN i
  ELSE ScanParticipants(participants, target, i + 1)

FindParticipantLast(participants, target) ==
  LET S == { i \in 1..Len(participants) : participants[i].puuid = target }
  IN  IF S = {} THEN 0 ELSE CHOOSE i \in S : \A j \in S : j <= i
FindParticipantOrFirst(participants, target) ==
  LET i == ScanParticipants(participants, target, 1)
  IN  IF i = 0 /\ Len(participants) > 0 THEN 1 ELSE i
FindParticipant(participants, target) == ScanParticipants(participants, target, 1)

\* position of champ_name in the dict, 0 when `champ_name not in champion_stats`
RECURSIVE KeyIndex(_, _, _)
KeyIndex(cs, champ_name, i) ==
  IF i > Len(cs) THEN 0
  ELSE IF cs[i].champion = champ_name THEN i
  ELSE KeyIndex(cs, champ_name, i + 1)

NewAccumulator(champ_name) ==
  [champion |-> champ_name, games |-> 0, wins |-> 0,
   kills |-> 0, deaths |-> 0, assists |-> 0]

\* lines 123-128: the += on the champion's accumulator
AddToAccumulatorGamesOnce(a, participant) ==
  [a EXCEPT !.games   = IF @ = 0 THEN 1 ELSE @,
            !.kills   = @ + participant.kills,
            !.deaths  = @ + participant.deaths,
            !.assists = @ + participant.assists,
            !.wins    = IF participant.win THEN @ + 1 ELSE @]
AddToAccumulator(a, participant) ==
  [a EXCEPT !.games   = @ + 1,
            !.kills   = @ + participant.kills,
            !.deaths  = @ + participant.deaths,
            !.assists = @ + participant.assists,
            !.wins    = IF participant.win THEN @ + 1 ELSE @]

\* lines 113-128: lazy creation, then the update
UpdateChampionReplace(cs, participant) ==
  LET name == participant.championName
      k    == KeyIndex(cs, name, 1)
      fresh == AddToAccumulator(NewAccumulator(name), participant)
  IN  IF k = 0 THEN Append(cs, fresh) ELSE [cs EXCEPT ![k] = fresh]
UpdateChampion(cs, participant) ==
  LET name == participant.championName
      k0   == KeyIndex(cs, name, 1)
      cs1  == IF k0 = 0 THEN Append(cs, NewAccumulator(name)) ELSE cs
      k    == IF k0 = 0 THEN Len(cs1) ELSE k0
  IN  [cs1 EXCEPT ![k] = AddToAccumulator(@, participant)]

\* line 106-107
AddWin(w, participant) == IF participant.win THEN w + 1 ELSE w

\* lines 133-136
OverallWinrateUnguarded(w, total) == FMul(TrueDiv(w, total), 100)
OverallWinrate(w, total) ==
  IF total > 0 THEN FMul(TrueDiv(w, total), 100) ELSE Float(0, 1)

\* line 139 and line 148
Kda(k, d, a) == TrueDiv(k + a, Max(1, d))

\* lines 144-156: one entry of champion_stats_list
ChampionSummary(stats) ==
  [champion |-> stats.champion,
   games    |-> stats.games,
   wins     |-> stats.wins,
   losses   |-> stats.games - stats.wins,
   winrate  |-> IF stats.games > 0
                THEN FMul(TrueDiv(stats.wins, stats.games), 100) ELSE Float(0, 1),
   kda      |-> Kda(stats.kills, stats.deaths, stats.assists)]

\* lines 142-156: the list in dict order
BuildList(cs) == [i \in 1..Len(cs) |-> ChampionSummary(cs[i])]

\* list.sort(key=games, reverse=True): a stable descending sort, as an insertion
\* of each element, in list order, behind every element with games >= its own
RECURSIVE InsertDesc(_, _, _)
InsertDesc(sorted, x, i) ==
  IF i > Len(sorted) THEN Append(sorted, x)
  ELSE IF sorted[i].games < x.games
       THEN SubSeq(sorted, 1, i - 1) \o <<x>> \o SubSeq(sorted, i, Len(sorted))
       ELSE InsertDesc(sorted, x, i + 1)

RECURSIVE InsertDescBeforeTies(_, _, _)
InsertDescBeforeTies(sorted, x, i) ==
  IF i > Len(sorted) THEN Append(sorted, x)
  ELSE IF sorted[i].games <= x.games
       THEN SubSeq(sorted, 1, i - 1) \o <<x>> \o SubSeq(sorted, i, Len(sorted))
       ELSE InsertDescBeforeTies(sorted, x, i + 1)

RECURSIVE SortFrom(_, _, _)
SortFrom(list, sorted, i) ==
  IF i > Len(list) THEN sorted
  ELSE SortFrom(list, InsertDesc(sorted, list[i], 1), i + 1)

RECURSIVE SortFromUnstable(_, _, _)
SortFromUnstable(list, sorted, i) ==
  IF i > Len(list) THEN sorted
  ELSE SortFromUnstable(list, InsertDescBeforeTies(sorted, list[i], 1), i + 1)

SortUnsorted(list) == list
SortReversedTies(list) == SortFromUnstable(list, <<>>, 1)
SortByGamesDesc(list) == SortFrom(list, <<>>, 1)

\* the match id of loop iteration i (1-based) of `for match_id in match_ids`
MatchIdAtReversed(ids, i) == ids[Len(ids) - i + 1]
MatchIdAt(ids, i) == ids[i]

\* ------------------------------------------------------------ trace events
Request(op, arg, response) == [op |-> op, arg |-> arg, status |-> response.status_code]
Step(op, arg) == [op |-> op, arg |-> arg]
Ok == [status_code |-> 200]

\* ------------------------------------------------------------------- Init
Init ==
  /\ pc = "input"
  /\ riot_id = <<>>
  /\ puuid = ""
  /\ match_ids = <<>>
  /\ total_matches = 0
  /\ idx = 0
  /\ match_data = <<>>
  /\ wins = 0 /\ total_kills = 0 /\ total_deaths = 0 /\ total_assists = 0
  /\ champion_stats = <<>>
  /\ result = None
  /\ exc = None
  /\ output = <<>>
  /\ trace = <<>>
  /\ misses = 0
  /\ firstSeen = <<>>
  /\ lastTargets = 0

\* ---------------------------------------------------------------- actions

\* main.py line 5
Input ==
  /\ pc = "input"
  /\ \E r \in RiotIds : riot_id' = r
  /\ pc' = "resolve"
  /\ UNCHANGED << puuid, match_ids, total_matches, idx, match_data, accs,
                  result, exc, output, trace, misses, firstSeen, lastTargets >>

Raise(e) ==
  /\ exc' = e
  /\ pc' = "except"

\* get_puuid_by_riot_id, lines 20-21: no separator
GetPuuidInvalidAfterRequest ==
  /\ pc = "resolve"
  /\ ~HasSeparator(riot_id)
  /\ trace' = Append(trace, Request("GET account", <<riot_id>>, Ok))
  /\ Raise([type |-> "ValueError",
            msg  |-> <<"Riot ID must include '#' (e.g., 'TFBlade#122').">>])
  /\ UNCHANGED << riot_id, puuid, match_ids, total_matches, idx, match_data,
                  accs, result, output, misses, firstSeen, lastTargets >>
GetPuuidInvalid ==
  /\ pc = "resolve"
  /\ ~HasSeparator(riot_id)
  /\ Raise([type |-> "ValueError",
            msg  |-> <<"Riot ID must include '#' (e.g., 'TFBlade#122').">>])
  /\ UNCHANGED << riot_id, puuid, match_ids, total_matches, idx, match_data,
                  accs, result, output, trace, misses, firstSeen, lastTargets >>

\* get_puuid_by_riot_id, lines 23-30: the account request answers non-200
GetPuuidFail ==
  /\ pc = "resolve"
  /\ HasSeparator(riot_id)
  /\ \E resp \in ErrorResponses :
       /\ trace' = Append(trace, Request("GET account", SplitRiotId(riot_id), resp))
       /\ Raise([type |-> "Exception",
                 msg  |-> <<"Error fetching PUUID: ", resp.text>>])
  /\ UNCHANGED << riot_id, puuid, match_ids, total_matches, idx, match_data,
                  accs, result, output, misses, firstSeen, lastTargets >>

\* get_puuid_by_riot_id, lines 23-33, and calculate_stats line 77
GetPuuidOk ==
  /\ pc = "resolve"
  /\ HasSeparator(riot_id)
  /\ \E p \in AccountPuuids : puuid' = p
  /\ trace' = Append(trace, Request("GET account", SplitRiotId(riot_id), Ok))
  /\ pc' = "list"
  /\ UNCHANGED << riot_id, match_ids, total_matches, idx, match_data,
                  accs, result, exc, output, misses, firstSeen, lastTargets >>

\* get_match_ids, lines 40-49: the request answers non-200
GetMatchIdsFail ==
  /\ pc = "list"
  /\ \E resp \in ErrorResponses :
       /\ trace' = Append(trace, Request("GET match ids", <<puuid, match_count>>, resp))
       /\ Raise([type |-> "Exception",
                 msg  |-> <<"Error fetching match IDs: ", resp.text>>])
  /\ UNCHANGED << riot_id, puuid, match_ids, total_matches, idx, match_data,
                  accs, result, output, misses, firstSeen, lastTargets >>

\* get_match_ids, lines 40-51, and calculate_stats lines 80-95
GetMatchIdsOk ==
  /\ pc = "list"
  /\ \E ids \in MatchIdLists(match_count) :
       /\ match_ids' = ids
       /\ total_matches' = Len(ids)
  /\ trace' = Append(trace, Request("GET match ids", <<puuid, match_count>>, Ok))
  /\ wins' = 0 /\ total_kills' = 0 /\ total_deaths' = 0 /\ total_assists' = 0
  /\ champion_stats' = <<>>
  /\ pc' = "loop"
  /\ UNCHANGED << riot_id, puuid, idx, match_data, result, exc, output,
                  misses, firstSeen, lastTargets >>

\* get_match_data, lines 57-62, for the next id of the loop: non-200
GetMatchDataFailSkip ==
  /\ pc = "loop"
  /\ idx < Len(match_ids)
  /\ idx' = idx + 1
  /\ \E resp \in ErrorResponses :
       trace' = Append(trace, Request("GET match", <<MatchIdAt(match_ids, idx + 1)>>, resp))
  /\ UNCHANGED << pc, exc, riot_id, puuid, match_ids, total_matches, match_data,
                  accs, result, output, misses, firstSeen, lastTargets >>
GetMatchDataFail ==
  /\ pc = "loop"
  /\ idx < Len(match_ids)
  /\ idx' = idx + 1
  /\ \E resp \in ErrorResponses :
       /\ trace' = Append(trace, Request("GET match", <<MatchIdAt(match_ids, idx + 1)>>, resp))
       /\ Raise([type |-> "Exception",
                 msg  |-> <<"Error fetching match data for ",
                            MatchIdAt(match_ids, idx + 1), ": ", resp.text>>])
  /\ UNCHANGED << riot_id, puuid, match_ids, total_matches, match_data,
                  accs, result, output, misses, firstSeen, lastTargets >>

\* what the history variables record about a fetched record, read off the record
\* itself: whether the target is absent, and the champion the target plays
TargetIndexes(rec) == { i \in 1..Len(rec) : rec[i].puuid = puuid }
FirstTarget(rec) == CHOOSE i \in TargetIndexes(rec) : \A j \in TargetIndexes(rec) : i <= j
Range(f) == { f[i] : i \in DOMAIN f }

\* calculate_stats lines 98-100: get_match_data answers 200 for the next id
GetMatchDataOk ==
  /\ pc = "loop"
  /\ idx < Len(match_ids)
  /\ idx' = idx + 1
  /\ \E rec \in MatchRecords :
       /\ match_data' = rec
       /\ lastTargets' = Cardinality(TargetIndexes(rec))
       /\ misses' = IF TargetIndexes(rec) = {} THEN misses + 1 ELSE misses
       /\ firstSeen' =
            IF TargetIndexes(rec) = {} THEN firstSeen
            ELSE LET c == rec[FirstTarget(rec)].championName
                 IN  IF c \in Range(firstSeen) THEN firstSeen
                     ELSE Append(firstSeen, c)
  /\ trace' = Append(trace, Request("GET match", <<MatchIdAt(match_ids, idx + 1)>>, Ok))
  /\ pc' = "fold"
  /\ UNCHANGED << riot_id, puuid, match_ids, total_matches, accs,
                  result, exc, output >>

\* calculate_stats lines 103-130: the scan of the fetched record's participants
FoldMatch ==
  /\ pc = "fold"
  /\ LET k == FindParticipant(match_data, puuid)
     IN  IF k = 0
         THEN UNCHANGED accs
         ELSE LET participant == match_data[k]
              IN  /\ wins' = AddWin(wins, participant)
                  /\ total_kills' = total_kills + participant.kills
                  /\ total_deaths' = total_deaths + participant.deaths
                  /\ total_assists' = total_assists + participant.assists
                  /\ champion_stats' = UpdateChampion(champion_stats, participant)
  /\ trace' = Append(trace, Step("fold", <<idx>>))
  /\ match_data' = <<>>    \* the record is not read again
  /\ pc' = "loop"
  /\ UNCHANGED << riot_id, puuid, match_ids, total_matches, idx,
                  result, exc, output, misses, firstSeen, lastTargets >>

\* calculate_stats lines 132-168, after the last iteration
CalculateReturn ==
  /\ pc = "loop"
  /\ idx = Len(match_ids)
  /\ LET overall_winrate == OverallWinrate(wins, total_matches)
         overall_kda == Kda(total_kills, total_deaths, total_assists)
         champion_stats_list == SortByGamesDesc(BuildList(champion_stats))
     IN  IF \/ IsFault(overall_winrate) \/ IsFault(overall_kda)
            \/ \E i \in 1..Len(champion_stats_list) :
                 \/ IsFault(champion_stats_list[i].winrate)
                 \/ IsFault(champion_stats_list[i].kda)
         THEN /\ Raise(ZeroDivisionError)
              /\ UNCHANGED << result, trace >>
         ELSE /\ result' = [overall_winrate |-> overall_winrate,
                            total_matches   |-> total_matches,
                            overall_kda     |-> overall_kda,
                            champion_stats  |-> champion_stats_list]
              /\ trace' = Append(trace, Step("return", <<>>))
              /\ pc' = "print"
              /\ UNCHANGED exc
  /\ UNCHANGED << riot_id, puuid, match_ids, total_matches, idx, match_data,
                  accs, output, misses, firstSeen, lastTargets >>

Line(kind, val) == [kind |-> kind, val |-> val]

\* main.py line 28, one line per champion
ChampionLine(champ_info) ==
  Line("champion", << champ_info.champion, champ_info.winrate, champ_info.wins,
                      champ_info.losses, champ_info.kda >>)

\* main.py lines 9-28
MainPrint ==
  /\ pc = "print"
  /\ LET champion_stats_list == result.champion_stats
         top_3_champs == SubSeq(champion_stats_list, 1,
                                Min(TopN, Len(champion_stats_list)))
     IN  output' = << Line("riot_id", riot_id),
                      Line("total_matches", result.total_matches),
                      Line("overall_winrate", result.overall_winrate),
                      Line("overall_kda", result.overall_kda),
                      Line("header", "Top 3 Champions:") >>
                   \o [i \in 1..Len(top_3_champs) |-> ChampionLine(top_3_champs[i])]
  /\ trace' = Append(trace, Step("print", <<>>))
  /\ pc' = "done"
  /\ UNCHANGED << riot_id, puuid, match_ids, total_matches, idx, match_data,
                  accs, result, exc, misses, firstSeen, lastTargets >>

\* main.py lines 30-31
MainExcept ==
  /\ pc = "except"
  /\ output' = Append(output, Line("error", exc.msg))
  /\ pc' = "done"
  /\ UNCHANGED << riot_id, puuid, match_ids, total_matches, idx, match_data,
                  accs, result, exc, trace, misses, firstSeen, lastTargets >>

Next ==
  \/ Input
  \/ GetPuuidInvalid
  \/ GetPuuidFail
  \/ GetPuuidOk
  \/ GetMatchIdsFail
  \/ GetMatchIdsOk
  \/ GetMatchDataFail
  \/ GetMatchDataOk
  \/ FoldMatch
  \/ CalculateReturn
  \/ MainPrint
  \/ MainExcept

Spec == Init /\ [][Next]_vars

\* ------------------------------------------------------------- properties

RECURSIVE SumGames(_, _)
SumGames(list, i) == IF i > Len(list) THEN 0 ELSE list[i].games + SumGames(list, i + 1)

IsRequest(e) == e.op \in {"GET account", "GET match ids", "GET match"}
Fetches == { i \in 1..Len(trace) : trace[i].op = "GET match" }
Failures == { i \in 1..Len(trace) : IsRequest(trace[i]) /\ trace[i].status # 200 }
Returned == result # None
StatsLines == { i \in 1..Len(output) : output[i].kind # "error" }
NoSeparator == \A i \in 1..Len(riot_id) : riot_id[i] # "#"
Position(seq, x) == CHOOSE i \in 1..Len(seq) : seq[i] = x
GamesOf(cs, name) ==
  IF \E i \in 1..Len(cs) : cs[i].champion = name
  THEN cs[CHOOSE i \in 1..Len(cs) : cs[i].champion = name].games
  ELSE 0

\* C1: when every one of the N fetched records holds a participant with the
\* target's account id, the result has total_matches = N and the games of its
\* champion entries sum to N (during the loop: to the number of records folded).
C1_GamesSumToMatches ==
  misses = 0 =>
    /\ pc = "loop" => SumGames(champion_stats, 1) = idx
    /\ Returned =>
         /\ result.total_matches = Cardinality(Fetches)
         /\ SumGames(result.champion_stats, 1) = Cardinality(Fetches)

C1_Witness ==
  /\ Returned /\ misses = 0
  /\ Cardinality(Fetches) = 3
  /\ Len(result.champion_stats) = 2

\* C2: at every step the overall win counter is at most total_matches and every
\* accumulator has wins <= games; every returned losses value is >= 0.
C2_WinsBounded ==
  /\ wins <= total_matches
  /\ \A i \in 1..Len(champion_stats) : champion_stats[i].wins <= champion_stats[i].games
  /\ Returned => \A i \in 1..Len(result.champion_stats) :
                   /\ result.champion_stats[i].losses >= 0
                   /\ result.champion_stats[i].wins <= result.champion_stats[i].games

C2_Witness ==
  /\ Returned
  /\ wins = 2 /\ total_matches = 3
  /\ \E i \in 1..Len(result.champion_stats) :
       result.champion_stats[i].wins = 2 /\ result.champion_stats[i].losses = 0
  /\ \E i \in 1..Len(result.champion_stats) : result.champion_stats[i].losses = 1

\* C3: once a request has answered non-200, it is the last thing that happens in
\* calculate_stats (no further request, no fold, no retry), no result is
\* produced, and main prints exactly the one error line and no statistics line.
C3_FailureAborts ==
  Failures # {} =>
    /\ Failures = {Len(trace)}
    /\ ~Returned
    /\ exc # None
    /\ pc \in {"except", "done"}
    /\ StatsLines = {}
    /\ Len(output) <= 1
    /\ pc = "done" => Len(output) = 1 /\ output[1].kind = "error"

C3_Witness ==
  /\ pc = "done"
  /\ Failures # {}
  /\ Cardinality(Fetches) = 3
  /\ champion_stats # <<>>
  /\ Len(output) = 1

\* C4: folding a record without a participant of the target leaves wins, the
\* kill, death and assist totals and every accumulator unchanged, creates no
\* accumulator, and the record stays counted in total_matches.
C4_MissLeavesTotals ==
  [][ (pc = "fold" /\ \A i \in 1..Len(match_data) : match_data[i].puuid # puuid) =>
        /\ wins' = wins
        /\ total_kills' = total_kills
        /\ total_deaths' = total_deaths
        /\ total_assists' = total_assists
        /\ champion_stats' = champion_stats
        /\ total_matches' = total_matches
        /\ total_matches = Len(match_ids)
        /\ idx \in 1..total_matches ]_vars

C4_Witness ==
  /\ pc = "loop"
  /\ lastTargets = 0 /\ misses = 1
  /\ idx = 2
  /\ champion_stats # <<>>
  /\ total_matches = 3

\* C5: the returned champion_stats list is sorted by games, descending.
C5_SortedByGames ==
  Returned => \A i \in 1..(Len(result.champion_stats) - 1) :
                result.champion_stats[i].games >= result.champion_stats[i + 1].games

C5_Witness ==
  /\ Returned
  /\ Len(champion_stats) = 2
  /\ champion_stats[1].games < champion_stats[2].games
  /\ result.champion_stats[1].champion = champion_stats[2].champion

\* C6: a Riot ID without '#' ends in the ValueError before any request is made,
\* and no statistics are produced.
C6_InvalidFormatBeforeRequests ==
  (NoSeparator /\ pc \notin {"input", "resolve"}) =>
    /\ exc # None /\ exc.type = "ValueError"
    /\ trace = <<>>
    /\ ~Returned
    /\ StatsLines = {}

C6_Witness ==
  /\ NoSeparator
  /\ pc = "done"
  /\ Len(output) = 1 /\ output[1].kind = "error"

ListedEmpty ==
  /\ Len(trace) >= 2
  /\ trace[2].op = "GET match ids" /\ trace[2].status = 200
  /\ match_ids = <<>>

\* C7: when the lister answers with an empty list, calculate_stats raises
\* nothing, fetches no match and returns winrate 0.0, kda 0.0, total_matches 0
\* and an empty champion list.
C7_EmptyHistory ==
  ListedEmpty =>
    /\ exc = None
    /\ Fetches = {}
    /\ pc \in {"loop", "print", "done"}
    /\ pc # "loop" =>
         /\ Returned
         /\ result.overall_winrate = [num |-> 0, den |-> 1]
         /\ result.overall_kda = [num |-> 0, den |-> 1]
         /\ result.total_matches = 0
         /\ result.champion_stats = <<>>

C7_Witness ==
  /\ ListedEmpty
  /\ pc = "done"
  /\ Returned
  /\ Len(output) = 5

\* C8: champions with equal games appear in the returned list in the order in
\* which they were first encountered in the sequence of fetched records.
C8_TiesInEncounterOrder ==
  Returned =>
    \A i, j \in 1..Len(result.champion_stats) :
      (i < j /\ result.champion_stats[i].games = result.champion_stats[j].games) =>
        Position(firstSeen, result.champion_stats[i].champion)
          < Position(firstSeen, result.champion_stats[j].champion)

C8_Witness ==
  /\ Returned
  /\ Len(result.champion_stats) = 2
  /\ result.champion_stats[1].games = result.champion_stats[2].games
  /\ Cardinality(Fetches) = 3

\* C9: when a record holds several participants of the target, the fold takes
\* the first of them only: the totals grow by that participant's values, its
\* champion's accumulator gets games + 1 and no other accumulator changes.
C9_FirstParticipantOnly ==
  [][ (pc = "fold" /\ Cardinality({ i \in 1..Len(match_data) :
                                     match_data[i].puuid = puuid }) >= 2) =>
        LET first == CHOOSE i \in 1..Len(match_data) :
                       /\ match_data[i].puuid = puuid
                       /\ \A j \in 1..(i - 1) : match_data[j].puuid # puuid
            p == match_data[first]
        IN  /\ wins' = wins + (IF p.win THEN 1 ELSE 0)
            /\ total_kills' = total_kills + p.kills
            /\ total_deaths' = total_deaths + p.deaths
            /\ total_assists' = total_assists + p.assists
            /\ SumGames(champion_stats', 1) = SumGames(champion_stats, 1) + 1
            /\ \A c \in Champions :
                 GamesOf(champion_stats', c) =
                   GamesOf(champion_stats, c) + (IF c = p.championName THEN 1 ELSE 0) ]_vars

C9_Witness ==
  /\ pc = "loop"
  /\ lastTargets >= 2
  /\ idx = 2
  /\ Len(champion_stats) = 2

\* the event a run without failures has at position i of its trace
ExpectedOp(i) ==
  LET n == Len(match_ids)
  IN  IF i = 1 THEN "GET account"
      ELSE IF i = 2 THEN "GET match ids"
      ELSE IF i <= 2 * n + 2 THEN (IF i % 2 = 1 THEN "GET match" ELSE "fold")
      ELSE IF i = 2 * n + 3 THEN "return"
      ELSE "print"

\* C10: without failures the trace is: the account request, the match-id
\* request, then for every position of the id list, in list order, the fetch of
\* that id followed by the fold of its record, then the return, then the print.
C10_FixedOrder ==
  Failures = {} =>
    /\ \A i \in 1..Len(trace) :
         /\ trace[i].op = ExpectedOp(i)
         /\ trace[i].op = "GET match ids" => trace[i].arg = <<puuid, match_count>>
         /\ trace[i].op = "GET match" => trace[i].arg = << match_ids[(i - 1) \div 2] >>
         /\ trace[i].op = "fold" => trace[i].arg = << (i - 2) \div 2 >>
    /\ Len(trace) <= 2 * Len(match_ids) + 4
    /\ Returned <=> (Len(trace) >= 2 * Len(match_ids) + 3 /\ Len(trace) >= 3)
    /\ StatsLines # {} <=> (Len(trace) = 2 * Len(match_ids) + 4 /\ Len(trace) >= 4)
    /\ (pc = "done" /\ exc = None) => Len(trace) = 2 * Len(match_ids) + 4

C10_Witness ==
  /\ pc = "done"
  /\ Failures = {}
  /\ Len(trace) = 10
  /\ Len(output) = 7

====
